---- MODULE Spec2Model ----
(***************************************************************************)
(* WandbCallback (wandb/fastai/__init__.py): the fast.ai training callback *)
(* that forwards losses, metrics, sample predictions and the best model to *)
(* Weights & Biases.                                                       *)
(*                                                                         *)
(* One learner is trained by a blocking, single-threaded driver (fit): it  *)
(* calls on_train_begin, then on_epoch_end once per epoch, then            *)
(* on_train_end, for the observer attached to that fit.  Several observers *)
(* may be constructed in the process; they share the class attribute       *)
(* watch_called and the artifact path <run dir>/bestmodel.pth.             *)
(*                                                                         *)
(* Floats are records [kind, val]; metric names that are searched for a    *)
(* substring are sequences of characters.                                  *)
(***************************************************************************)
EXTENDS Integers, Sequences, FiniteSets, TLC

\* ------------------------------------------------------------------ bounds
NumObs == 2
MaxTrainings == 2
MaxEpochs == 2
MaxValue == 2
MaxValid == 2
MaxPred == 3
ScenarioLen == 4
MaxNames == 4
MaxMetrics == 2

Obs == 1..NumObs

\* ------------------------------------------------------------------ floats
None == [kind |-> "none", val |-> 0]
NaN == [kind |-> "nan", val |-> 0]
PosInf == [kind |-> "inf", val |-> 1]
NegInf == [kind |-> "inf", val |-> -1]
Num(n) == [kind |-> "num", val |-> n]

\* numpy.less on two floats: strict, false whenever a NaN is involved.
np_less(a, b) ==
    /\ a.kind \in {"num", "inf"}
    /\ b.kind \in {"num", "inf"}
    /\ \/ a = NegInf /\ b # NegInf
       \/ b = PosInf /\ a # PosInf
       \/ a.kind = "num" /\ b.kind = "num" /\ a.val < b.val

\* numpy.greater
np_greater(a, b) == np_less(b, a)

\* self.operator(current, self.best)
ApplyOperator_OrEqual(op, a, b) ==
    a = b \/ (IF op = "less" THEN np_less(a, b) ELSE np_greater(a, b))

ApplyOperator_Swapped(op, a, b) ==
    IF op = "less" THEN np_greater(a, b) ELSE np_less(a, b)

ApplyOperator(op, a, b) == IF op = "less" THEN np_less(a, b) ELSE np_greater(a, b)

\* ------------------------------------------------------------ metric names
val_loss == <<"v", "a", "l", "_", "l", "o", "s", "s">>
valid_loss == <<"v", "a", "l", "i", "d", "_", "l", "o", "s", "s">>
accuracy == <<"a", "c", "c", "u", "r", "a", "c", "y">>
error_rate == <<"e", "r", "r", "o", "r", "_", "r", "a", "t", "e">>
dice == <<"d", "i", "c", "e">>
lo_ss == <<"l", "o", "_", "s", "s">>

\* Python's `sub in s` on strings
Contains(s, sub) ==
    \E i \in 1..(Len(s) - Len(sub) + 1) : SubSeq(s, i, i + Len(sub) - 1) = sub

\* TrackerCallback.__init__: the comparison the mode and the monitor resolve to
ResolveOperator(monitor, mode) ==
    IF mode = "min" THEN "less"
    ELSE IF mode = "max" THEN "greater"
    ELSE IF Contains(monitor, <<"l", "o", "s", "s">>)
              \/ Contains(monitor, <<"e", "r", "r", "o", "r">>)
         THEN "less"
         ELSE "greater"

\* TrackerCallback.on_train_begin: the initial best of a comparison
InitialBest(op) == IF op = "less" THEN PosInf ELSE NegInf

\* ------------------------------------------------------------------- state
VARIABLES
    run,            \* wandb.run is not None
    watch_called,   \* WandbCallback.watch_called (class attribute)
    watches,        \* number of wandb.watch requests issued in the process
    file,           \* content of <run dir>/bestmodel.pth, NoFile when absent
    writable,       \* a write to <run dir>/bestmodel.pth succeeds
    model,          \* learn.model's in-memory parameters (a snapshot id)
    valid_len,      \* len(learn.data.valid_ds)
    names,          \* learn.recorder.names
    fit,            \* the driver: attached observer, epoch, position
    ntrain,         \* number of fits started in the process
    obs,            \* the observers' fields
    pending,        \* wandb's uncommitted fields of the current step
    row,            \* wandb's last committed step
    last            \* what the last call did (operation, error, effects)

vars == <<run, watch_called, watches, file, writable, model, valid_len, names,
          fit, ntrain, obs, pending, row, last>>

\* a snapshot of the parameters: those reached after `epoch` epochs of fit `train`
Snapshot(t, e) == [train |-> t, epoch |-> e]
NoFile == Snapshot(-1, -1)
\* the file left by a write that failed after open('wb'): it exists and holds
\* no parameters
Truncated == Snapshot(-2, -2)

\* None and [] are both falsy on lines 83 and 119
NoData == <<>>

NoSamples == [has |-> FALSE, images |-> <<>>]
NoRow == [samples |-> NoSamples, logs |-> <<>>]

NewObserver ==
    [pc |-> "new", save_model |-> FALSE, monitor |-> <<>>, mode |-> "",
     operator |-> "", log |-> "", data_type |-> "", best |-> None,
     validation_data |-> NoData, train |-> 0]

\* values: the monitored value the recorder holds for each epoch of this fit
Idle == [obs |-> 0, epoch |-> 0, at |-> "idle", values |-> <<>>]

\* op: the call; args: its arguments; raised: the error it ended with;
\* watched: wandb.watch was called; saved: the artifact was written;
\* loaded, purge: learn.load was called, and with which purge;
\* calls: the wandb.log calls made, in order
Did(op, o, args) ==
    [op |-> op, o |-> o, args |-> args, raised |-> "", watched |-> FALSE,
     saved |-> FALSE, loaded |-> FALSE, purge |-> FALSE, calls |-> <<>>]

NoArgs == [none |-> TRUE]

InitWith(vlens, nameseqs) ==
    /\ run = FALSE
    /\ watch_called = FALSE
    /\ watches = 0
    /\ file = NoFile
    /\ writable = TRUE
    /\ model = Snapshot(0, 0)
    /\ valid_len \in vlens
    /\ names \in nameseqs
    /\ fit = Idle
    /\ ntrain = 0
    /\ obs = [o \in Obs |-> NewObserver]
    /\ pending = NoSamples
    /\ row = NoRow
    /\ last = Did("start", 0, NoArgs)

\* ---------------------------------------------------------------- wandb.init
\* The environment starts the experiment run (wandb.init()).
WandbInit ==
    /\ ~run
    /\ fit.at = "idle"
    /\ run' = TRUE
    /\ last' = Did("wandb.init", 0, NoArgs)
    /\ UNCHANGED <<watch_called, watches, file, writable, model, valid_len,
                   names, fit, ntrain, obs, pending, row>>

\* ------------------------------------------------------------------ __init__
Min(a, b) == IF a < b THEN a ELSE b

\* random.sample(range(n), k): the k-element lists without repetition
RandomSample(n, k) ==
    {s \in [1..k -> 0..(n - 1)] : \A i, j \in 1..k : i # j => s[i] # s[j]}

\* lines 82-87: the sample sets the constructor may end with
SampleSets_WithReplacement(data_type, validation_data, predictions, n) ==
    IF data_type # "None" /\ validation_data = NoData
    THEN [1..Min(predictions, n) -> 0..(n - 1)]
    ELSE {validation_data}

SampleSets(data_type, validation_data, predictions, n) ==
    IF data_type # "None" /\ validation_data = NoData
    THEN RandomSample(n, Min(predictions, n))
    ELSE {validation_data}

\* WandbCallback.__init__(learn, log, save_model, monitor, mode, data_type,
\*                        validation_data, predictions)
\* line 68: wandb.run is None
RunMissing_Never == FALSE

RunMissing == ~run

\* line 73: super().__init__(learn, monitor=monitor, mode=mode)
SuperInitArgs_ModeDropped(a) == [monitor |-> a.monitor, mode |-> "auto"]

SuperInitArgs(a) == [monitor |-> a.monitor, mode |-> a.mode]

\* line 79: self.best = None
ConstructedBest == None

\* Observers are numbered in the order of their construction.
Construct(o, a) ==
    /\ obs[o].pc = "new"
    /\ \A p \in Obs : p < o => obs[p].pc # "new"
    /\ fit.at = "idle"
    /\ IF RunMissing
       THEN /\ last' = [Did("__init__", o, a) EXCEPT !.raised = "ValueError"]
            /\ UNCHANGED obs
       ELSE /\ \E vd \in SampleSets(a.data_type, a.validation_data,
                                    a.predictions, valid_len) :
                  obs' = [obs EXCEPT ![o] =
                      [pc |-> "ready", save_model |-> a.save_model,
                       monitor |-> SuperInitArgs(a).monitor,
                       mode |-> SuperInitArgs(a).mode,
                       operator |-> ResolveOperator(SuperInitArgs(a).monitor,
                                                    SuperInitArgs(a).mode),
                       log |-> a.log, data_type |-> a.data_type,
                       best |-> ConstructedBest, validation_data |-> vd,
                       train |-> 0]]
            /\ last' = Did("__init__", o, a)
    /\ UNCHANGED <<run, watch_called, watches, file, writable, model,
                   valid_len, names, fit, ntrain, pending, row>>

\* ------------------------------------------------------------ on_train_begin
\* lines 96-100: is the watch request issued by this call
IssuesWatch_Always(called) == TRUE

IssuesWatch(called) == ~called

\* line 93: super().on_train_begin() sets self.best
BestAtTrainBegin_Kept(op, best) == best

BestAtTrainBegin_AlwaysInf(op, best) == PosInf

BestAtTrainBegin(op, best) == InitialBest(op)

\* WandbCallback.on_train_begin, called by the driver when a fit starts
OnTrainBegin(o, maxTrainings) ==
    /\ obs[o].pc = "ready"
    /\ fit.at = "idle"
    /\ ntrain < maxTrainings
    /\ obs' = [obs EXCEPT ![o].best = BestAtTrainBegin(obs[o].operator, @),
                          ![o].train = ntrain + 1]
    /\ watch_called' = (watch_called \/ IssuesWatch(watch_called))
    /\ watches' = IF IssuesWatch(watch_called) THEN watches + 1 ELSE watches
    /\ fit' = [obs |-> o, epoch |-> 0, at |-> "train", values |-> <<>>]
    /\ ntrain' = ntrain + 1
    /\ last' = [Did("on_train_begin", o, NoArgs) EXCEPT
                   !.watched = IssuesWatch(watch_called)]
    /\ UNCHANGED <<run, file, writable, model, valid_len, names, pending, row>>

\* ------------------------------------------------------------------ the fit
\* The driver trains one epoch and validates: the parameters change and the
\* recorder receives this epoch's monitored value v.
TrainEpoch(v, maxEpochs) ==
    /\ fit.at = "train"
    /\ fit.epoch < maxEpochs
    /\ model' = Snapshot(ntrain, fit.epoch + 1)
    /\ fit' = [fit EXCEPT !.at = "epoch_end", !.values = Append(@, v)]
    /\ last' = Did("train", fit.obs, NoArgs)
    /\ UNCHANGED <<run, watch_called, watches, file, writable, valid_len,
                   names, ntrain, obs, pending, row>>

\* -------------------------------------------------------------- on_epoch_end
\* TrackerCallback.get_monitor_value: the recorder's value of this epoch
get_monitor_value == fit.values[Len(fit.values)]

\* line 108: the monitored value is a new best
Better(op, current, best) == current # None /\ ApplyOperator(op, current, best)

\* lines 105-108: this epoch saves the model
Saves_IgnoreFlag(o, current) ==
    Better(obs[o].operator, current, obs[o].best)

Saves_OnAbsent(o, current) ==
    obs[o].save_model
    /\ (current = None \/ ApplyOperator(obs[o].operator, current, obs[o].best))

Saves(o, current) ==
    obs[o].save_model /\ Better(obs[o].operator, current, obs[o].best)

\* wandb.Image(x.data, caption='Ground Truth: {}\nPrediction: {}')
Image(item, pred) == [x |-> item, truth |-> item, prediction |-> pred.cls]

\* lines 120-131: the images of the samples whose prediction is scalar-shaped
RECURSIVE PredLog_AnyShape(_, _)
PredLog_AnyShape(vd, preds) ==
    IF vd = <<>> THEN <<>>
    ELSE <<Image(Head(vd), Head(preds))>>
         \o PredLog_AnyShape(Tail(vd), Tail(preds))

RECURSIVE PredLog(_, _)
PredLog(vd, preds) ==
    IF vd = <<>> THEN <<>>
    ELSE (IF Head(preds).scalar THEN <<Image(Head(vd), Head(preds))>> ELSE <<>>)
         \o PredLog(Tail(vd), Tail(preds))

\* lines 137-142: {name: stat for name, stat in zip(names, [epoch, smooth_loss]
\* + last_metrics)[1:]}; zip stops at the shorter list, a later pair of a
\* repeated name replaces the earlier one
Logs_FirstKept(nms, epoch, smooth_loss, last_metrics) ==
    LET stats == <<smooth_loss>> \o last_metrics
        n == Min(Len(nms), Len(stats))
    IN  [k \in {nms[i] : i \in 1..n} |->
            stats[CHOOSE i \in 1..n : nms[i] = k]]

Logs(nms, epoch, smooth_loss, last_metrics) ==
    LET stats == <<epoch, smooth_loss>> \o last_metrics
        n == Min(Len(nms), Len(stats))
        At(k) == CHOOSE i \in 2..n :
                     nms[i] = k /\ \A j \in 2..n : nms[j] = k => j <= i
    IN  [k \in {nms[i] : i \in 2..n} |-> stats[At(k)]]

\* wandb.log(data, commit): the fields not yet committed after the call
LogPending(pend, samples, commit) == IF commit THEN NoSamples ELSE samples

\* wandb.log(data, commit) on the backend [pending, row]: the fields of data
\* join the pending ones; a commit closes the step with all of them
WandbLog(st, call) ==
    LET samples == IF call.samples.has THEN call.samples ELSE st.pending
    IN  [pending |-> LogPending(st.pending, samples, call.commit),
         row |-> IF call.commit
                 THEN [samples |-> samples, logs |-> call.logs]
                 ELSE st.row]

RECURSIVE WandbLogAll(_, _)
WandbLogAll(st, calls) ==
    IF calls = <<>> THEN st
    ELSE WandbLogAll(WandbLog(st, Head(calls)), Tail(calls))

\* lines 119-143: the wandb.log calls of one on_epoch_end, in order
Emitted_SamplesCommitted(vd, pred_log, logs) ==
    (IF vd # NoData
     THEN <<[field |-> "Prediction Samples", commit |-> TRUE,
             samples |-> [has |-> TRUE, images |-> pred_log], logs |-> <<>>]>>
     ELSE <<>>)
    \o <<[field |-> "logs", commit |-> TRUE, samples |-> NoSamples,
          logs |-> logs]>>

Emitted(vd, pred_log, logs) ==
    (IF vd # NoData
     THEN <<[field |-> "Prediction Samples", commit |-> FALSE,
             samples |-> [has |-> TRUE, images |-> pred_log], logs |-> <<>>]>>
     ELSE <<>>)
    \o <<[field |-> "logs", commit |-> TRUE, samples |-> NoSamples,
          logs |-> logs]>>

\* lines 115-116: the write of the artifact raises
WriteFails == ~writable

\* WandbCallback.on_epoch_end(epoch, smooth_loss, last_metrics)
OnEpochEnd(o, smooth_loss, last_metrics, preds) ==
    LET current == get_monitor_value
        saves == Saves(o, current)
        vd == obs[o].validation_data
        logs == Logs(names, fit.epoch, smooth_loss, last_metrics)
        calls == Emitted(vd, PredLog(vd, preds), logs)
        after == WandbLogAll([pending |-> pending, row |-> row], calls)
        \* lines 115-116: open('wb') or learn.save raises
        fails == saves /\ WriteFails
    IN  /\ fit.obs = o
        /\ fit.at = "epoch_end"
        /\ Len(preds) = Len(vd)
        /\ obs' = [obs EXCEPT ![o].best = IF saves THEN current ELSE @]
        /\ IF fails
           THEN /\ file' \in {file, Truncated}
                /\ UNCHANGED <<row, pending>>
                /\ fit' = [fit EXCEPT !.at = "failed"]
                /\ last' = [Did("on_epoch_end", o,
                                 [epoch |-> fit.epoch,
                                  smooth_loss |-> smooth_loss,
                                  last_metrics |-> last_metrics,
                                  preds |-> preds])
                           EXCEPT !.raised = "IOError"]
           ELSE /\ file' = IF saves THEN model ELSE file
                /\ row' = after.row
                /\ pending' = after.pending
                /\ fit' = [fit EXCEPT !.at = "train", !.epoch = @ + 1]
                /\ last' = [Did("on_epoch_end", o,
                                 [epoch |-> fit.epoch,
                                  smooth_loss |-> smooth_loss,
                                  last_metrics |-> last_metrics,
                                  preds |-> preds])
                           EXCEPT
                               !.saved = saves,
                               !.calls = [i \in 1..Len(calls) |->
                                             [field |-> calls[i].field,
                                              commit |-> calls[i].commit]]]
        /\ UNCHANGED <<run, watch_called, watches, writable, model, valid_len,
                       names, ntrain>>

\* The training loop receives the error of on_epoch_end and gives up the fit.
FitAborts ==
    /\ fit.at = "failed"
    /\ fit' = Idle
    /\ last' = Did("abort", fit.obs, NoArgs)
    /\ UNCHANGED <<run, watch_called, watches, file, writable, model,
                   valid_len, names, ntrain, obs, pending, row>>

\* The run directory stops or resumes accepting writes.
DiskChanges ==
    /\ writable' = ~writable
    /\ last' = Did("disk", 0, NoArgs)
    /\ UNCHANGED <<run, watch_called, watches, file, model, valid_len, names,
                   fit, ntrain, obs, pending, row>>

\* -------------------------------------------------------------- on_train_end
\* lines 148-150: the artifact is loaded back
Loads_NoFileCheck(o) == obs[o].save_model

Loads(o) == obs[o].save_model /\ file # NoFile

\* WandbCallback.on_train_end, called by the driver when the fit is over
OnTrainEnd(o) ==
    /\ fit.obs = o
    /\ fit.at = "train"
    /\ model' = IF Loads(o) /\ file # Truncated THEN file ELSE model
    /\ fit' = Idle
    /\ last' = [Did("on_train_end", o, NoArgs) EXCEPT
                   !.loaded = Loads(o),
                   !.raised = IF Loads(o) /\ file = Truncated
                              THEN "IOError" ELSE ""]
    /\ UNCHANGED <<run, watch_called, watches, file, writable, valid_len,
                   names, ntrain, obs, pending, row>>

\* ------------------------------------------------------- the lifecycle model
\* Several observers, checkpointing on or off, both comparison modes,
\* repeated fits; sampling off.
RecorderNames == <<"epoch", "train_loss", "valid_loss">>

Values == {None, NaN} \cup {Num(n) : n \in 1..MaxValue}

LifecycleArgs ==
    {[log |-> "None", save_model |-> sm, monitor |-> valid_loss, mode |-> m,
      data_type |-> "None", validation_data |-> NoData, predictions |-> 0] :
        sm \in BOOLEAN, m \in {"min", "max"}}

Init == InitWith({MaxValid}, {RecorderNames})

Next ==
    \/ WandbInit
    \/ \E o \in Obs, a \in LifecycleArgs : Construct(o, a)
    \/ \E o \in Obs : OnTrainBegin(o, MaxTrainings)
    \/ \E v \in Values : TrainEpoch(v, MaxEpochs)
    \/ \E o \in Obs : OnEpochEnd(o, Num(1), <<Num(1)>>, <<>>)
    \/ \E o \in Obs : OnTrainEnd(o)

Spec == Init /\ [][Next]_vars

\* ------------------------------------------------------ the best-model model
\* One observer with checkpointing, one fit of up to ScenarioLen epochs, the
\* monitored values drawn from those of the sequence 5, 3, 4, 2 and from the
\* special floats.
Scenario == <<Num(5), Num(3), Num(4), Num(2)>>

ScenarioValues ==
    {None, NaN, PosInf, NegInf} \cup {Scenario[i] : i \in 1..Len(Scenario)}

BestArgs ==
    {[log |-> "None", save_model |-> TRUE, monitor |-> valid_loss, mode |-> m,
      data_type |-> "None", validation_data |-> NoData, predictions |-> 0] :
        m \in {"min", "max"}}

NextBest ==
    \/ WandbInit
    \/ \E a \in BestArgs : Construct(1, a)
    \/ OnTrainBegin(1, 1)
    \/ \E v \in ScenarioValues : TrainEpoch(v, ScenarioLen)
    \/ OnEpochEnd(1, Num(1), <<Num(1)>>, <<>>)
    \/ OnTrainEnd(1)

SpecBest == Init /\ [][NextBest]_vars

\* ------------------------------------------------------ the construction model
\* One observer, every monitor and mode, sampling on or off with a requested
\* count below, at and above the size of the validation set, explicit sample
\* sets; repeated fits whose predictions are scalar- or array-shaped.
Monitors == {val_loss, valid_loss, accuracy, error_rate, dice, lo_ss}

ConfigArgs ==
    {[log |-> "None", save_model |-> FALSE, monitor |-> mon, mode |-> m,
      data_type |-> "None", validation_data |-> NoData, predictions |-> 0] :
        mon \in Monitors, m \in {"auto", "min", "max"}}
    \cup
    {[log |-> "None", save_model |-> FALSE, monitor |-> val_loss,
      mode |-> "auto", data_type |-> dt, validation_data |-> vd,
      predictions |-> n] :
        dt \in {"images", "None"}, vd \in {NoData, <<0>>, <<1, 1>>},
        n \in 0..MaxPred}

PredOutcomes ==
    {[scalar |-> TRUE, cls |-> 0], [scalar |-> TRUE, cls |-> 1],
     [scalar |-> FALSE, cls |-> 0]}

InitConfig == InitWith(0..MaxValid, {RecorderNames})

NextConfig ==
    \/ WandbInit
    \/ \E a \in ConfigArgs : Construct(1, a)
    \/ OnTrainBegin(1, MaxTrainings)
    \/ TrainEpoch(None, MaxEpochs)
    \/ \E preds \in [1..Len(obs[1].validation_data) -> PredOutcomes] :
           OnEpochEnd(1, Num(1), <<Num(1)>>, preds)
    \/ OnTrainEnd(1)

SpecConfig == InitConfig /\ [][NextConfig]_vars

\* ------------------------------------------------------ the metric-record model
\* One observer, recorders of 1 to MaxNames distinct names, 0 to MaxMetrics
\* validation metrics per epoch; 0.25, 0.3 and 0.9 are 25, 30 and 90.
NamePool ==
    <<"epoch", "train_loss", "valid_loss", "accuracy", "error_rate", "time">>

NameSeqs == {SubSeq(NamePool, 1, n) : n \in 1..Min(MaxNames, Len(NamePool))}

MetricSeqs ==
    UNION {[1..n -> {Num(30), Num(90)}] : n \in 0..MaxMetrics}

LogArgs ==
    {[log |-> "None", save_model |-> FALSE, monitor |-> val_loss,
      mode |-> "auto", data_type |-> "None", validation_data |-> NoData,
      predictions |-> 0]}

InitLog == InitWith({MaxValid}, NameSeqs)

NextLog ==
    \/ WandbInit
    \/ \E a \in LogArgs : Construct(1, a)
    \/ OnTrainBegin(1, 1)
    \/ TrainEpoch(None, ScenarioLen)
    \/ \E ms \in MetricSeqs : OnEpochEnd(1, Num(25), ms, <<>>)
    \/ OnTrainEnd(1)

SpecLog == InitLog /\ [][NextLog]_vars

\* ------------------------------------------------------ the write-failure model
\* One observer with checkpointing, repeated fits, a run directory that may
\* refuse writes at any time.
IOArgs ==
    {[log |-> "None", save_model |-> TRUE, monitor |-> valid_loss, mode |-> m,
      data_type |-> "None", validation_data |-> NoData, predictions |-> 0] :
        m \in {"min", "max"}}

NextIO ==
    \/ WandbInit
    \/ \E a \in IOArgs : Construct(1, a)
    \/ OnTrainBegin(1, MaxTrainings)
    \/ \E v \in Values : TrainEpoch(v, MaxEpochs)
    \/ OnEpochEnd(1, Num(1), <<Num(1)>>, <<>>)
    \/ OnTrainEnd(1)
    \/ FitAborts
    \/ DiskChanges

SpecIO == Init /\ [][NextIO]_vars

\* ------------------------------------------------------------------- claims
\* the steps of the handlers, told by the driver's position
IsEpochEnd == fit.at = "epoch_end" /\ fit'.at = "train"
IsTrainEnd == fit.at = "train" /\ fit'.at = "idle"
IsTrainBegin == fit.at = "idle" /\ fit'.at = "train"
IsConstruct(o) == last'.op = "__init__" /\ last'.o = o /\ obs[o].pc = "new"

\* C1: constructing the observer while no run is active fails with the
\* precondition error (ValueError), and the failed construction creates no run,
\* no observer and no sample set, and leaves watch_called as it was.
C1_NoRunFails ==
    [][\A o \in Obs :
          IsConstruct(o) /\ ~run =>
              /\ last'.raised = "ValueError"
              /\ run' = run
              /\ obs' = obs
              /\ watch_called' = watch_called
              /\ watches' = watches]_vars

C1_Witness ==
    /\ last.op = "__init__"
    /\ last.raised = "ValueError"
    /\ ~run
    /\ last.args.data_type = "images"
    /\ last.args.validation_data = NoData
    /\ last.args.predictions > 0
    /\ valid_len > 0
    /\ obs[last.o] = NewObserver

\* C2: over all on_train_begin calls of all observers the watch request is
\* issued at most once: the on_train_begin that finds watch_called unset sets it
\* and issues the request, every other one issues none, and watch_called, once
\* true, stays true.
C2_WatchOnce ==
    [][/\ watch_called => watch_called'
       /\ watches' <= 1
       /\ watches' # watches => IsTrainBegin /\ ~watch_called
       /\ IsTrainBegin =>
              /\ watch_called'
              /\ last'.watched = ~watch_called
              /\ watches' = IF watch_called THEN watches ELSE watches + 1]_vars

C2_Witness ==
    /\ last.op = "on_train_begin"
    /\ ~last.watched
    /\ watches = 1
    /\ \E o \in Obs : o # last.o /\ obs[o].train > 0

\* C5: with checkpointing disabled no on_epoch_end writes the artifact or
\* changes best, whatever the epoch and the metric, and on_train_end loads
\* nothing into the model.
C5_DisabledNoEffect ==
    [][\A o \in Obs :
          fit.obs = o /\ ~obs[o].save_model =>
              /\ IsEpochEnd =>
                     file' = file /\ obs'[o].best = obs[o].best /\ ~last'.saved
              /\ IsTrainEnd => model' = model /\ ~last'.loaded]_vars

C5_Witness ==
    /\ last.op = "on_train_end"
    /\ ~obs[last.o].save_model
    /\ file # NoFile
    /\ model.train = obs[last.o].train
    /\ model.epoch = MaxEpochs
    /\ obs[last.o].best = InitialBest(obs[last.o].operator)

\* C9: on_train_end with checkpointing enabled and no artifact at the path is
\* a no-op: no error, nothing loaded, the parameters and best unchanged.
C9_NoArtifactNoOp ==
    [][\A o \in Obs :
          fit.obs = o /\ IsTrainEnd /\ obs[o].save_model /\ file = NoFile =>
              /\ last'.raised = ""
              /\ ~last'.loaded
              /\ model' = model
              /\ obs' = obs
              /\ file' = file]_vars

C9_Witness ==
    /\ last.op = "on_train_end"
    /\ obs[last.o].save_model
    /\ file = NoFile
    /\ model.train = obs[last.o].train
    /\ model.epoch >= 1

\* C10: with checkpointing enabled, an on_epoch_end whose monitored value is
\* absent raises no error, writes no artifact, leaves best unchanged and still
\* emits the metric record of the epoch, committed.
C10_AbsentValueSkips ==
    [][\A o \in Obs :
          fit.obs = o /\ IsEpochEnd /\ obs[o].save_model
          /\ get_monitor_value = None =>
              /\ last'.raised = ""
              /\ ~last'.saved
              /\ file' = file
              /\ obs'[o].best = obs[o].best
              /\ last'.calls # <<>>
              /\ last'.calls[Len(last'.calls)] =
                     [field |-> "logs", commit |-> TRUE]
              /\ row'.logs = [k \in {names[2], names[3]} |->
                                 IF k = names[2] THEN last'.args.smooth_loss
                                 ELSE last'.args.last_metrics[1]]]_vars

C10_Witness ==
    /\ last.op = "on_epoch_end"
    /\ obs[last.o].save_model
    /\ fit.values[Len(fit.values)] = None
    /\ DOMAIN row.logs = {"train_loss", "valid_loss"}

\* a <= b on the extended reals
Le(a, b) ==
    \/ a = NegInf
    \/ b = PosInf
    \/ a.kind = "num" /\ b.kind = "num" /\ a.val <= b.val

IsPrefix(p, q) == Len(p) <= Len(q) /\ p = SubSeq(q, 1, Len(p))

\* C3: with checkpointing enabled an on_epoch_end writes the artifact and
\* updates best exactly when the monitored value is defined and strictly
\* better than best (less in min mode, greater in max mode; an equal value, or
\* a NaN, does not save); best then becomes that value and otherwise stays.
\* For the values 5, 3, 4, 2 after on_train_begin, min mode saves at epochs 1,
\* 2 and 4 and max mode at epoch 1 only.
C3_SavesIffStrictlyBetter ==
    [][\A o \in Obs :
          /\ obs[o].pc = "ready" /\ obs'[o].best # obs[o].best =>
                 \/ IsTrainBegin /\ fit'.obs = o
                 \/ IsEpochEnd /\ fit.obs = o /\ last'.saved
          /\ fit.obs = o /\ IsEpochEnd /\ obs[o].save_model =>
              LET cur == get_monitor_value
                  best == obs[o].best
                  min == obs[o].mode = "min"
                  better == /\ cur.kind \in {"num", "inf"}
                            /\ cur # best
                            /\ IF min THEN Le(cur, best) ELSE Le(best, cur)
                  n == Len(fit.values)
              IN  /\ last'.saved = better
                  /\ better => file' = model /\ obs'[o].best = cur
                  /\ ~better => file' = file /\ obs'[o].best = best
                  /\ IsPrefix(fit.values, Scenario) =>
                         last'.saved = (n \in IF min THEN {1, 2, 4} ELSE {1})]_vars

C3_Witness ==
    /\ last.op = "on_epoch_end"
    /\ fit.values = Scenario
    /\ obs[last.o].mode = "min"
    /\ last.saved
    /\ obs[last.o].best = Num(2)
    /\ file = Snapshot(1, 4)

\* C4: with checkpointing enabled, the artifact found at the path after an
\* on_epoch_end holds the parameters of the epoch of this fit whose monitored
\* value equals best, and on_train_end, when the artifact exists, replaces the
\* parameters in memory with exactly that snapshot, loaded without purge.
C4_ArtifactIsBestOfFit ==
    [][\A o \in Obs :
          fit.obs = o /\ obs[o].save_model =>
              /\ IsEpochEnd /\ file' # NoFile =>
                     /\ file'.train = obs[o].train
                     /\ file'.epoch \in 1..Len(fit.values)
                     /\ fit.values[file'.epoch] = obs'[o].best
              /\ IsTrainEnd /\ file # NoFile =>
                     /\ last'.loaded
                     /\ ~last'.purge
                     /\ model' = file
                     /\ file.train = obs[o].train
                     /\ file.epoch \in 1..Len(fit.values)
                     /\ fit.values[file.epoch] = obs[o].best]_vars

\* C6: with mode "auto" the comparison is min (less) when the monitor's name
\* contains "loss" or "error" and max (greater) otherwise, so val_loss resolves
\* to min and accuracy to max; with mode "min" or "max" the given mode is used
\* whatever the name.
C6_ModeResolution ==
    \A o \in Obs :
        obs[o].pc = "ready" =>
            /\ last.op = "__init__" /\ last.o = o =>
                   obs[o].monitor = last.args.monitor /\ obs[o].mode = last.args.mode
            /\ obs[o].mode = "min" => obs[o].operator = "less"
            /\ obs[o].mode = "max" => obs[o].operator = "greater"
            /\ obs[o].mode = "auto" =>
                   /\ obs[o].monitor \in {val_loss, valid_loss, error_rate} =>
                          obs[o].operator = "less"
                   /\ obs[o].monitor \in {accuracy, dice, lo_ss} =>
                          obs[o].operator = "greater"
            /\ obs[o].operator \in {"less", "greater"}

C6_Witness ==
    /\ last.op = "__init__"
    /\ last.raised = ""
    /\ last.args.mode = "max"
    /\ last.args.monitor = val_loss
    /\ obs[last.o].operator = "greater"

\* s is t with some elements left out
RECURSIVE IsSubsequence(_, _)
IsSubsequence(s, t) ==
    IF s = <<>> THEN TRUE
    ELSE IF t = <<>> THEN FALSE
    ELSE IF Head(s) = Head(t) THEN IsSubsequence(Tail(s), Tail(t))
    ELSE IsSubsequence(s, Tail(t))

\* C7: when sampling is enabled and no explicit sample set is given, the set
\* drawn at construction has min(requested, size of the validation set)
\* elements, all of them indices of the validation set and no two the same;
\* the sample set is never drawn again or modified, and every on_epoch_end of
\* every fit of the observer iterates it.
C7_SampleSetFixed ==
    [][\A o \in Obs :
          /\ IsConstruct(o) /\ last'.raised = ""
             /\ last'.args.data_type # "None"
             /\ last'.args.validation_data = NoData =>
                 LET vd == obs'[o].validation_data
                     k == last'.args.predictions
                 IN  /\ Len(vd) = (IF k <= valid_len THEN k ELSE valid_len)
                     /\ \A i \in 1..Len(vd) : vd[i] \in 0..(valid_len - 1)
                     /\ Cardinality({vd[i] : i \in 1..Len(vd)}) = Len(vd)
          /\ obs[o].pc = "ready" =>
                 obs'[o].validation_data = obs[o].validation_data
          /\ fit.obs = o /\ IsEpochEnd /\ obs[o].validation_data # NoData =>
                 /\ row'.samples.has
                 /\ Len(last'.args.preds) = Len(obs[o].validation_data)
                 /\ IsSubsequence(
                        [i \in 1..Len(row'.samples.images) |->
                            row'.samples.images[i].x],
                        obs[o].validation_data)]_vars

C7_Witness ==
    /\ last.op = "on_epoch_end"
    /\ obs[last.o].train = MaxTrainings
    /\ fit.epoch = MaxEpochs
    /\ obs[last.o].data_type = "images"
    /\ valid_len = MaxValid
    /\ Len(obs[last.o].validation_data) = valid_len
    /\ Cardinality({obs[last.o].validation_data[i] : i \in 1..valid_len})
           = valid_len
    /\ Len(row.samples.images) = valid_len

\* C8: the record logged by on_epoch_end pairs the recorder's names, in order,
\* with [epoch, smooth_loss] + last_metrics and drops the first pair: the first
\* name is no key, the second name maps to smooth_loss and the k-th name after
\* it to the k-th validation metric (recorder names are distinct), as far as
\* both lists reach.  For names [epoch, train_loss, valid_loss, accuracy],
\* metrics [0.3, 0.9], epoch 2 and smooth_loss 0.25 the record is
\* {train_loss: 0.25, valid_loss: 0.3, accuracy: 0.9}.
C8_MetricRecord ==
    last.op = "on_epoch_end" =>
        LET ms == last.args.last_metrics
            n == IF Len(names) <= 2 + Len(ms) THEN Len(names) ELSE 2 + Len(ms)
        IN  /\ DOMAIN row.logs = {names[i] : i \in 2..n}
            /\ names[1] \notin DOMAIN row.logs
            /\ Len(names) >= 2 => row.logs[names[2]] = last.args.smooth_loss
            /\ \A k \in 1..Len(ms) :
                   k + 2 <= Len(names) => row.logs[names[k + 2]] = ms[k]
            /\ /\ names = <<"epoch", "train_loss", "valid_loss", "accuracy">>
               /\ last.args.epoch = 2
               /\ last.args.smooth_loss = Num(25)
               /\ ms = <<Num(30), Num(90)>>
               => row.logs = [k \in {"train_loss", "valid_loss", "accuracy"} |->
                                 IF k = "train_loss" THEN Num(25)
                                 ELSE IF k = "valid_loss" THEN Num(30)
                                 ELSE Num(90)]

C8_Witness ==
    /\ last.op = "on_epoch_end"
    /\ names = <<"epoch", "train_loss", "valid_loss", "accuracy">>
    /\ last.args.epoch = 2
    /\ last.args.smooth_loss = Num(25)
    /\ last.args.last_metrics = <<Num(30), Num(90)>>
    /\ row.logs["accuracy"] = Num(90)

\* C11: every on_train_begin resets best to +infinity in min mode and to
\* -infinity in max mode, whatever best was, so a second fit of the same
\* observer does not inherit the best of the first.
C11_TrainBeginResetsBest ==
    [][\A o \in Obs :
          IsTrainBegin /\ fit'.obs = o =>
              /\ obs[o].mode = "min" => obs'[o].best = PosInf
              /\ obs[o].mode = "max" => obs'[o].best = NegInf
              /\ obs'[o].best.kind = "inf"]_vars

C11_Witness ==
    /\ last.op = "on_train_begin"
    /\ obs[last.o].train = 2
    /\ obs[last.o].save_model
    /\ \A p \in Obs : p # last.o => obs[p].train = 0
    /\ file = Snapshot(1, 1)
    /\ obs[last.o].best = PosInf

\* C15: best is None from the construction until the first on_train_begin of
\* the observer, and while a fit of the observer runs (begin, epoch ends, end
\* in this order) best is a float, never None, at every on_epoch_end.
C15_BestDefinedInFit ==
    \A o \in Obs :
        /\ obs[o].pc = "ready" /\ obs[o].train = 0 => obs[o].best = None
        /\ fit.obs = o =>
               /\ obs[o].train > 0
               /\ obs[o].best # None
               /\ obs[o].best.kind \in {"num", "inf"}

C15_Witness ==
    /\ fit.at = "epoch_end"
    /\ fit.epoch = 0
    /\ obs[fit.obs].save_model
    /\ obs[fit.obs].best = NegInf
    /\ \E p \in Obs : p # fit.obs /\ obs[p].pc = "ready" /\ obs[p].best = None

\* C12: each on_epoch_end commits exactly one log step.  With a sample set,
\* "Prediction Samples" is emitted first, without commit, and the metric record
\* after it, with commit, so that the committed step holds both; without a
\* sample set only the committed metric record is emitted.  No field is left
\* uncommitted when on_epoch_end returns.
C12_OneStepPerEpoch ==
    [][\A o \in Obs :
          fit.obs = o /\ IsEpochEnd =>
              LET calls == last'.calls
                  sampled == obs[o].validation_data # NoData
              IN  /\ Cardinality({i \in 1..Len(calls) : calls[i].commit}) = 1
                  /\ calls[Len(calls)] = [field |-> "logs", commit |-> TRUE]
                  /\ sampled =>
                         /\ Len(calls) = 2
                         /\ calls[1] = [field |-> "Prediction Samples",
                                        commit |-> FALSE]
                         /\ row'.samples.has
                  /\ ~sampled => Len(calls) = 1 /\ ~row'.samples.has
                  /\ DOMAIN row'.logs = {names[2], names[3]}
                  /\ pending' = NoSamples]_vars

C12_Witness ==
    /\ last.op = "on_epoch_end"
    /\ Len(last.calls) = 2
    /\ row.samples.has
    /\ row.samples.images # <<>>
    /\ DOMAIN row.logs = {"train_loss", "valid_loss"}
    /\ pending = NoSamples

\* C14: when a sample set exists, the "Prediction Samples" sequence logged by
\* on_epoch_end holds, in the order of the sample set, one captioned image for
\* every sample whose prediction is scalar-shaped and none for a sample whose
\* prediction is array-shaped; the field is emitted exactly once per epoch,
\* also when the sequence is empty.
C14_ScalarSamplesLogged ==
    last.op = "on_epoch_end" /\ obs[last.o].validation_data # NoData =>
        LET vd == obs[last.o].validation_data
            preds == last.args.preds
            images == row.samples.images
            scalars == {i \in 1..Len(vd) : preds[i].scalar}
            \* the position in vd of the j-th scalar-shaped prediction
            Pos(j) == CHOOSE i \in scalars :
                          Cardinality({k \in scalars : k <= i}) = j
        IN  /\ Len(images) = Cardinality(scalars)
            /\ \A j \in 1..Len(images) :
                   images[j] = [x |-> vd[Pos(j)], truth |-> vd[Pos(j)],
                                prediction |-> preds[Pos(j)].cls]
            /\ row.samples.has
            /\ Cardinality({i \in 1..Len(last.calls) :
                               last.calls[i].field = "Prediction Samples"}) = 1

C14_Witness ==
    /\ last.op = "on_epoch_end"
    /\ Len(obs[last.o].validation_data) = 2
    /\ ~last.args.preds[1].scalar
    /\ last.args.preds[2].scalar
    /\ Len(row.samples.images) = 1
    /\ row.samples.images[1].x = obs[last.o].validation_data[2]

\* C13: a failed write of the artifact in on_epoch_end reaches the caller as
\* an I/O error and is not swallowed, and after the failure best is not left
\* at a value for which no artifact was written.
C13_FailedWriteKeepsContract ==
    [][\A o \in Obs :
          fit.obs = o /\ fit.at = "epoch_end" /\ last'.op = "on_epoch_end"
          /\ ~writable /\ obs[o].save_model
          /\ Better(obs[o].operator, get_monitor_value, obs[o].best) =>
              /\ last'.raised = "IOError"
              /\ fit'.at = "failed"
              /\ \/ obs'[o].best = obs[o].best
                 \/ /\ file'.train = obs[o].train
                    /\ file'.epoch \in 1..Len(fit.values)
                    /\ fit.values[file'.epoch] = obs'[o].best]_vars

\* C16: the artifact that on_train_end loads was written by an on_epoch_end
\* of the same observer during the fit that this on_train_end closes, also
\* when the run directory has seen an earlier fit or another observer with
\* checkpointing.
C16_LoadedArtifactIsOwn ==
    [][\A o \in Obs :
          fit.obs = o /\ IsTrainEnd /\ last'.loaded =>
              /\ model' = file
              /\ file.train = obs[o].train]_vars

\* the monitored value of the epoch is the first finite one of the fit
FirstFinite ==
    /\ get_monitor_value.kind = "num"
    /\ \A i \in 1..(Len(fit.values) - 1) : fit.values[i].kind # "num"

====
